---- MODULE Spec2Model ----
(***************************************************************************)
(* A model of bio2bel_mirtarbase.manager.Manager: the ingestion pipeline   *)
(* (populate), the namespace resolver and the enrichment emitters          *)
(* (enrich_rnas, enrich_mirnas) and the full serializer (to_bel).          *)
(***************************************************************************)
EXTENDS Integers, Sequences, FiniteSets, TLC

\* Bounds of the model.
MaxRows == 3      \* source rows consumed over all populate runs
MaxNodes == 2     \* nodes of a caller-supplied graph

(***************************************************************************)
(* Python values.                                                          *)
(***************************************************************************)
None == "None"                       \* Python's None where a string may stand
NoObject == [id |-> 0]               \* Python's None where a model object may stand

Truthy(x) == x # None /\ x # ""      \* truth value of an Optional[str]

\* A cell of the numeric gene-id column: a float given in tenths, or NaN.
Float(t) == [kind |-> "float", tenths |-> t]
NaN == [kind |-> "nan", tenths |-> 0]

IsIntCoercible(x) == x.kind = "float"          \* int(x) does not raise
int(x) == x.tenths \div 10                     \* int() truncates
str(n) == ToString(n)                          \* str() of an integer

\* dict.get(key): the value, or None when the key is absent.
get(d, k) == IF k \in DOMAIN d THEN d[k] ELSE NoObject

\* d[k] = v on a dict.
put(d, k, v) == [x \in DOMAIN d \cup {k} |-> IF x = k THEN v ELSE d[x]]

EmptyDict == [x \in {} |-> None]

Range(s) == {s[i] : i \in DOMAIN s}

(***************************************************************************)
(* The collaborators' data: the HGNC registry and the source table.        *)
(***************************************************************************)
\* hgnc_manager.hgnc(): registry models in listing order. The third has no
\* Entrez identifier, the fourth an empty one, the last re-declares "1".
HgncModels ==
    << [entrez |-> "1", symbol |-> "G1old", identifier |-> 10],
       [entrez |-> "2", symbol |-> "G2", identifier |-> 12],
       [entrez |-> None, symbol |-> "GX", identifier |-> 13],
       [entrez |-> "", symbol |-> "GY", identifier |-> 14],
       [entrez |-> "1", symbol |-> "G1", identifier |-> 11] >>

Row(mid, mn, ms, gn, ez, ts, pm) ==
    [mirtarbase_id |-> mid, mirna_name |-> mn, mirna_species |-> ms,
     gene_name |-> gn, entrez_id |-> ez, target_species |-> ts,
     exp |-> "assay", sup_type |-> "Functional MTI", pubmed |-> pm]

\* The rows get_data may yield (df.itertuples()).
SourceRows ==
    { Row("MIRT1", "miR-a", "hsa", "GA", Float(10), "hsa", 101),
      Row("MIRT2", "miR-a", "mmu", "GB", Float(15), "mmu", 102),
      Row("MIRT4", "miR-b", "mmu", "GA", Float(10), "hsa", 102),
      Row("MIRT5", "miR-b", "mmu", "GC", Float(30), "mmu", 101),
      Row("MIRT6", "miR-a", "hsa", "GA", NaN, "hsa", 101) }

(***************************************************************************)
(* State.                                                                  *)
(***************************************************************************)
VARIABLES
    store,            \* the committed rows of the five tables
    session,          \* self.session: the objects added and not yet committed
    name_mirna,       \* populate's caches
    target_set,
    species_set,
    interaction_set,
    emap,             \* populate's cross-reference map
    df,               \* the rows the running populate has consumed
    pc,               \* "idle", "loop" inside populate's for loop, or
                      \* "returned" when a graph call has handed back its graph
    outcome,          \* how the last populate ended
    nextId,           \* identity of the next object constructed
    firstId,          \* nextId when the running (or last) populate began
    abortedIds,       \* identities of objects built by runs that raised
    nrows,            \* rows consumed over all runs
    call,             \* the graph call that has returned, or "none"
    raised,           \* the exception that call raised, or None
    graph0,           \* the graph as the caller passed it
    graph,            \* the graph as the call left (or returned) it
    trace             \* what the call did with each node (or Evidence), in order

vars == <<store, session, name_mirna, target_set, species_set, interaction_set,
          emap, df, pc, outcome, nextId, firstId, abortedIds, nrows,
          call, raised, graph0, graph, trace>>

graphVars == <<call, raised, graph0, graph, trace>>

Tables == {"species", "mirnas", "targets", "interactions", "evidences"}

EmptyTables == [t \in Tables |-> {}]

\* self.session.add(obj)
add(s, table, obj) == [s EXCEPT ![table] = @ \cup {obj}]

(***************************************************************************)
(* _build_entrez_map: {model.entrez: model for model in hgnc if entrez}.   *)
(***************************************************************************)
LastWith(models, e) ==
    models[CHOOSE i \in DOMAIN models :
              /\ models[i].entrez = e
              /\ \A j \in DOMAIN models : models[j].entrez = e => j <= i]

_build_entrez_map(models) ==
    [e \in {models[i].entrez : i \in {j \in DOMAIN models : Truthy(models[j].entrez)}}
        |-> LastWith(models, e)]

(***************************************************************************)
(* populate: one iteration of the for loop, as steps over the loop's       *)
(* locals c = [session, name_mirna, target_set, species_set,               *)
(* interaction_set, nextId, mirna, target, interaction].                   *)
(***************************************************************************)
\* Mutant: the species cache is never consulted.
ResolveSpecies_AlwaysNew(c, name) ==
    LET new == [id |-> c.nextId, name |-> name]
    IN  [c EXCEPT !.species_set = put(@, name, new),
                  !.session = add(@, "species", new),
                  !.nextId = @ + 1,
                  !.species = new]

\* species = species_set.get(name); if None, create, cache and add it.
ResolveSpecies(c, name) ==
    LET species == get(c.species_set, name)
    IN  IF species = NoObject
        THEN LET new == [id |-> c.nextId, name |-> name]
             IN  [c EXCEPT !.species_set = put(@, name, new),
                           !.session = add(@, "species", new),
                           !.nextId = @ + 1,
                           !.species = new]
        ELSE [c EXCEPT !.species = species]

\* lines 102-115
ResolveMirna(c, r) ==
    LET mirna == get(c.name_mirna, r.mirna_name)
    IN  IF mirna = NoObject
        THEN LET c1 == ResolveSpecies(c, r.mirna_species)
                 new == [id |-> c1.nextId, name |-> r.mirna_name,
                         species |-> c1.species.id]
             IN  [c1 EXCEPT !.name_mirna = put(@, r.mirna_name, new),
                            !.session = add(@, "mirnas", new),
                            !.nextId = @ + 1,
                            !.mirna = new]
        ELSE [c EXCEPT !.mirna = mirna]

\* Mutant: only the symbol is copied from the registry entry.
CrossReference_SymbolOnly(target, entrez_id, m) ==
    IF entrez_id \in DOMAIN m
    THEN [target EXCEPT !.hgnc_symbol = m[entrez_id].symbol]
    ELSE target

\* lines 131-134
CrossReference(target, entrez_id, m) ==
    IF entrez_id \in DOMAIN m
    THEN [target EXCEPT !.hgnc_symbol = m[entrez_id].symbol,
                        !.hgnc_id = str(m[entrez_id].identifier)]
    ELSE target

\* lines 117-136
ResolveTarget(c, r, entrez_id, m) ==
    LET target == get(c.target_set, entrez_id)
    IN  IF target = NoObject
        THEN LET c1 == ResolveSpecies(c, r.target_species)
                 new == CrossReference(
                            [id |-> c1.nextId, entrez_id |-> entrez_id,
                             species |-> c1.species.id, name |-> r.gene_name,
                             hgnc_symbol |-> None, hgnc_id |-> None],
                            entrez_id, m)
             IN  [c1 EXCEPT !.target_set = put(@, entrez_id, new),
                            !.session = add(@, "targets", new),
                            !.nextId = @ + 1,
                            !.target = new]
        ELSE [c EXCEPT !.target = target]

\* lines 139-144
NewInteraction(c, r, interaction_key) ==
    LET new == [id |-> c.nextId, mirtarbase_id |-> r.mirtarbase_id,
                mirna |-> c.mirna.id, target |-> c.target.id]
    IN  [c EXCEPT !.interaction_set = put(@, interaction_key, new),
                  !.session = add(@, "interactions", new),
                  !.nextId = @ + 1,
                  !.interaction = new]

\* Mutant: the interaction cache is never consulted.
ResolveInteraction_NoCache(c, r, entrez_id, m) ==
    NewInteraction(ResolveTarget(ResolveMirna(c, r), r, entrez_id, m),
                   r, <<r.mirna_name, entrez_id>>)

\* Mutant: a later row of the key overwrites the Interaction's mirtarbase_id.
ResolveInteraction_Overwrite(c, r, entrez_id, m) ==
    LET interaction_key == <<r.mirna_name, entrez_id>>
        interaction == get(c.interaction_set, interaction_key)
    IN  IF interaction = NoObject
        THEN NewInteraction(ResolveTarget(ResolveMirna(c, r), r, entrez_id, m),
                            r, interaction_key)
        ELSE LET upd == [interaction EXCEPT !.mirtarbase_id = r.mirtarbase_id]
             IN  [c EXCEPT !.interaction = upd,
                           !.interaction_set = put(@, interaction_key, upd),
                           !.session = [@ EXCEPT !.interactions =
                                           (@ \ {interaction}) \cup {upd}]]

\* lines 98-144
ResolveInteraction(c, r, entrez_id, m) ==
    LET interaction_key == <<r.mirna_name, entrez_id>>
        interaction == get(c.interaction_set, interaction_key)
    IN  IF interaction = NoObject
        THEN NewInteraction(ResolveTarget(ResolveMirna(c, r), r, entrez_id, m),
                            r, interaction_key)
        ELSE [c EXCEPT !.interaction = interaction]

\* lines 147-153
NewEvidence(c, r) ==
    LET new == [id |-> c.nextId, experiment |-> r.exp, support |-> r.sup_type,
                reference |-> r.pubmed, interaction |-> c.interaction.id]
    IN  [c EXCEPT !.session = add(@, "evidences", new),
                  !.nextId = @ + 1]

\* lines 96-153
LoopBody(c, r, m) ==
    NewEvidence(ResolveInteraction(c, r, str(int(r.entrez_id)), m), r)

Locals ==
    [session |-> session, name_mirna |-> name_mirna, target_set |-> target_set,
     species_set |-> species_set, interaction_set |-> interaction_set,
     nextId |-> nextId, species |-> NoObject, mirna |-> NoObject,
     target |-> NoObject, interaction |-> NoObject]

(***************************************************************************)
(* The store's commit, with the unique keys the tables declare.            *)
(***************************************************************************)
Merged(a, b) == [t \in Tables |-> a[t] \cup b[t]]

SpeciesKey(x) == x.name
MirnaKey(x) == x.name
TargetKey(x) == x.entrez_id

ConstraintsHold(db) ==
    /\ \A x, y \in db.species : SpeciesKey(x) = SpeciesKey(y) => x = y
    /\ \A x, y \in db.mirnas : MirnaKey(x) = MirnaKey(y) => x = y
    /\ \A x, y \in db.targets : TargetKey(x) = TargetKey(y) => x = y

(***************************************************************************)
(* Count queries.                                                          *)
(***************************************************************************)
count_mirnas == Cardinality(store.mirnas)
is_populated == 0 < count_mirnas
summarize ==
    [targets |-> Cardinality(store.targets), mirnas |-> count_mirnas,
     species |-> Cardinality(store.species),
     interactions |-> Cardinality(store.interactions),
     evidences |-> Cardinality(store.evidences)]


(***************************************************************************)
(* Graphs: nodes in insertion order, edges in insertion order.             *)
(***************************************************************************)
RNA == "RNA"
MIRNA == "miRNA"
DIRECTLY_DECREASES == "directlyDecreases"
MIRBASE == "MIRBASE"

\* A node's data; None stands for an absent NAMESPACE, NAME or IDENTIFIER key.
NodeData(f, ns, nm, idf) ==
    [function |-> f, namespace |-> ns, name |-> nm, identifier |-> idf]

\* str.lower() on the naming authorities of the model.
Lower(ns) ==
    CASE ns \in {"HGNC", "Hgnc", "hgnc"} -> "hgnc"
      [] ns \in {"EGID", "egid"} -> "egid"
      [] ns \in {"Entrez", "entrez"} -> "entrez"
      [] ns \in {"miRTarBase", "mirtarbase"} -> "mirtarbase"
      [] ns \in {"MIRBASE", "mirbase"} -> "mirbase"
      [] ns = "GO" -> "go"
      [] OTHER -> ns

VALID_ENTREZ_NAMESPACES == {"egid", "eg", "entrez", "ncbigene"}

EmptyGraph(name) == [name |-> name, nodes |-> <<>>, edges |-> <<>>]

add_node(g, n) ==
    IF n \in Range(g.nodes) THEN g ELSE [g EXCEPT !.nodes = Append(@, n)]

\* graph.add_qualified_edge(u, v, relation=, evidence=, citation=, annotations=)
add_qualified_edge(g, u, v, relation, evidence, citation, annotations) ==
    [add_node(add_node(g, u), v) EXCEPT
        !.edges = Append(@, [u |-> u, v |-> v, relation |-> relation,
                             evidence |-> evidence, citation |-> citation,
                             annotations |-> annotations])]

(***************************************************************************)
(* The models' relationships and BEL forms.                                *)
(***************************************************************************)
RECURSIVE OrderById(_)
OrderById(S) ==
    IF S = {} THEN <<>>
    ELSE LET m == CHOOSE x \in S : \A y \in S : x.id <= y.id
         IN  <<m>> \o OrderById(S \ {m})

interactions(target) == OrderById({x \in store.interactions : x.target = target.id})
evidences(interaction) == OrderById({x \in store.evidences : x.interaction = interaction.id})
mirna_of(interaction) == CHOOSE x \in store.mirnas : x.id = interaction.mirna
target_of(interaction) == CHOOSE x \in store.targets : x.id = interaction.target
interaction_of(evidence) == CHOOSE x \in store.interactions : x.id = evidence.interaction

\* Mirna.as_bel()
mirna_as_bel(mirna) == NodeData(MIRNA, MIRBASE, mirna.name, None)

\* Target.as_bel()
target_as_bel(target) ==
    IF target.hgnc_symbol # None
    THEN NodeData(RNA, "HGNC", target.hgnc_symbol, target.hgnc_id)
    ELSE NodeData(RNA, "EGID", target.name, target.entrez_id)

\* Evidence.add_to_graph(graph)
add_to_graph(evidence, g) ==
    add_qualified_edge(g,
        mirna_as_bel(mirna_of(interaction_of(evidence))),
        target_as_bel(target_of(interaction_of(evidence))),
        DIRECTLY_DECREASES, evidence.support, str(evidence.reference),
        [Experiment |-> evidence.experiment, SupportType |-> evidence.support])

(***************************************************************************)
(* Queries: session.query(Target).filter(...).one_or_none().               *)
(***************************************************************************)
MultipleResultsFound == [id |-> -1]

one_or_none(S) ==
    IF S = {} THEN NoObject
    ELSE IF Cardinality(S) = 1 THEN CHOOSE x \in S : TRUE
    ELSE MultipleResultsFound

query_target_by_entrez_id(entrez_id) ==
    one_or_none({x \in store.targets : x.entrez_id = entrez_id})
query_target_by_hgnc_symbol(hgnc_symbol) ==
    one_or_none({x \in store.targets : x.hgnc_symbol = hgnc_symbol})
query_target_by_hgnc_identifier(hgnc_id) ==
    one_or_none({x \in store.targets : x.hgnc_id = hgnc_id})

\* A resolver's result: the query's result, or the exception raised.
Found(x) ==
    IF x = MultipleResultsFound
    THEN [raised |-> "MultipleResultsFound", target |-> NoObject]
    ELSE [raised |-> None, target |-> x]
Raise(e) == [raised |-> e, target |-> NoObject]

\* Mutant: the symbol is looked up before the identifier.
_enrich_rna_handle_hgnc_SymbolFirst(identifier, name) ==
    IF Truthy(name) THEN Found(query_target_by_hgnc_symbol(name))
    ELSE IF Truthy(identifier) THEN Found(query_target_by_hgnc_identifier(identifier))
    ELSE Raise("IndexError")

_enrich_rna_handle_hgnc(identifier, name) ==
    IF Truthy(identifier) THEN Found(query_target_by_hgnc_identifier(identifier))
    ELSE IF Truthy(name) THEN Found(query_target_by_hgnc_symbol(name))
    ELSE Raise("IndexError")

_enrich_rna_handle_entrez(identifier, name) ==
    IF Truthy(identifier) THEN Found(query_target_by_entrez_id(identifier))
    ELSE IF Truthy(name) THEN Found(query_target_by_entrez_id(name))
    ELSE Raise("IndexError")

(***************************************************************************)
(* enrich_rnas. The loop's state is st = [graph, trace, raised].           *)
(***************************************************************************)
Log(st, node, what, target) ==
    [st EXCEPT !.trace = Append(@, [node |-> node, did |-> what, target |-> target])]

\* Mutant: one Evidence per Interaction, the first.
RECURSIVE EvidencePairs_FirstOnly(_)
EvidencePairs_FirstOnly(its) ==
    IF its = <<>> THEN <<>>
    ELSE [i \in 1 .. (IF evidences(Head(its)) = <<>> THEN 0 ELSE 1) |->
             [interaction |-> Head(its), evidence |-> evidences(Head(its))[i]]]
         \o EvidencePairs_FirstOnly(Tail(its))

\* lines 323-324: the (interaction, evidence) pairs in loop order.
RECURSIVE EvidencePairs(_)
EvidencePairs(its) ==
    IF its = <<>> THEN <<>>
    ELSE [i \in 1 .. Len(evidences(Head(its))) |->
             [interaction |-> Head(its), evidence |-> evidences(Head(its))[i]]]
         \o EvidencePairs(Tail(its))

\* lines 325-336
RnaEdge(g, node, p) ==
    add_qualified_edge(g, mirna_as_bel(mirna_of(p.interaction)), node,
        DIRECTLY_DECREASES, p.evidence.support, str(p.evidence.reference),
        [Experiment |-> p.evidence.experiment, SupportType |-> p.evidence.support])

RECURSIVE RnaEdges(_, _, _)
RnaEdges(g, node, pairs) ==
    IF pairs = <<>> THEN g
    ELSE RnaEdges(RnaEdge(g, node, Head(pairs)), node, Tail(pairs))

\* Mutant: an unrecognized authority is an error.
ResolveRna_Strict(data) ==
    IF Lower(data.namespace) = "hgnc"
    THEN _enrich_rna_handle_hgnc(data.identifier, data.name)
    ELSE IF Lower(data.namespace) \in VALID_ENTREZ_NAMESPACES
    THEN _enrich_rna_handle_entrez(data.identifier, data.name)
    ELSE Raise("IndexError")

\* lines 307-317: the resolver's dispatch on the naming authority.
ResolveRna(data) ==
    IF Lower(data.namespace) = "hgnc"
    THEN _enrich_rna_handle_hgnc(data.identifier, data.name)
    ELSE IF Lower(data.namespace) \in VALID_ENTREZ_NAMESPACES
    THEN _enrich_rna_handle_entrez(data.identifier, data.name)
    ELSE Raise("unmapped")

\* lines 301-336: the loop body for one node.
EnrichRnaNode(st, node) ==
    IF node.function # RNA THEN Log(st, node, "continue", NoObject)
    ELSE IF node.namespace = None THEN Log(st, node, "continue", NoObject)
    ELSE LET res == ResolveRna(node)
         IN  IF res.raised = "unmapped" THEN Log(st, node, "unmapped", NoObject)
             ELSE IF res.raised # None
             THEN [Log(st, node, res.raised, NoObject) EXCEPT !.raised = res.raised]
             ELSE IF res.target = NoObject THEN Log(st, node, "not found", NoObject)
             ELSE [Log(st, node, "resolved", res.target) EXCEPT
                      !.graph = RnaEdges(@, node, EvidencePairs(interactions(res.target)))]

\* line 300: for node, data in graph.nodes(data=True), until an exception.
RECURSIVE EnrichRnaLoop(_, _)
EnrichRnaLoop(st, nodes) ==
    IF nodes = <<>> \/ st.raised # None THEN st
    ELSE EnrichRnaLoop(EnrichRnaNode(st, Head(nodes)), Tail(nodes))

enrich_rnas(g) ==
    EnrichRnaLoop([graph |-> g, trace |-> <<>>, raised |-> None], g.nodes)

(***************************************************************************)
(* enrich_mirnas. The loop's state is st = [names, trace, raised].         *)
(***************************************************************************)
\* lines 351-367: the loop body for one node.
EnrichMirnaNode(st, node) ==
    IF node.function # MIRNA \/ node.namespace = None
    THEN Log(st, node, "continue", NoObject)
    ELSE IF Lower(node.namespace) = "mirtarbase"
    THEN [Log(st, node, "IndexError", NoObject) EXCEPT
            !.names = IF node.name # None THEN @ \cup {node.name} ELSE @,
            !.raised = "IndexError"]
    ELSE IF Lower(node.namespace) \in {"mirbase", "hgnc"} \cup VALID_ENTREZ_NAMESPACES
    THEN Log(st, node, "not yet", NoObject)
    ELSE Log(st, node, "unmapped", NoObject)

RECURSIVE EnrichMirnaLoop(_, _)
EnrichMirnaLoop(st, nodes) ==
    IF nodes = <<>> \/ st.raised # None THEN st
    ELSE EnrichMirnaLoop(EnrichMirnaNode(st, Head(nodes)), Tail(nodes))

\* lines 373-377: the Evidence of the Mirna named in names, through the joins.
MirnaEvidences(names) ==
    OrderById({e \in store.evidences :
                  mirna_of(interaction_of(e)).name \in names})

RECURSIVE AddAllToGraph(_, _)
AddAllToGraph(g, evs) ==
    IF evs = <<>> THEN g
    ELSE AddAllToGraph(add_to_graph(Head(evs), g), Tail(evs))

enrich_mirnas(g) ==
    LET st == EnrichMirnaLoop([names |-> {}, trace |-> <<>>, raised |-> None], g.nodes)
    IN  IF st.raised # None \/ st.names = {}
        THEN [graph |-> g, trace |-> st.trace, raised |-> st.raised]
        ELSE [graph |-> AddAllToGraph(g, MirnaEvidences(st.names)),
              trace |-> st.trace, raised |-> None]

(***************************************************************************)
(* to_bel, given the order in which list_evidences lists the store.        *)
(***************************************************************************)
\* Mutant: one Evidence per Interaction is serialized.
to_bel_OnePerInteraction(listed) ==
    AddAllToGraph(EmptyGraph("miRTarBase"),
        SelectSeq(listed, LAMBDA e :
            \A d \in store.evidences : d.interaction = e.interaction => e.id <= d.id))

to_bel(listed) == AddAllToGraph(EmptyGraph("miRTarBase"), listed)

\* The orders in which the store may list a set of rows.
Listings(S) ==
    {f \in [1 .. Cardinality(S) -> S] : \A i, j \in DOMAIN f : f[i] = f[j] => i = j}

(***************************************************************************)
(* The graphs a caller may pass.                                           *)
(***************************************************************************)
RnaGraphNodes ==
    << NodeData(RNA, "HGNC", None, "11"),
      NodeData(RNA, "hgnc", "G1", "99"),
      NodeData(RNA, "HGNC", "G1", ""),
      NodeData(RNA, "HGNC", None, None),
      NodeData(RNA, "EGID", None, "3"),
      NodeData(RNA, "Entrez", "1", None),
      NodeData(RNA, "GO", "G1", "11"),
      NodeData(RNA, None, "G1", None),
      NodeData(MIRNA, MIRBASE, "miR-a", None) >>

MirnaGraphNodes ==
    << NodeData(MIRNA, "miRTarBase", "miR-a", None),
      NodeData(MIRNA, "mirtarbase", None, "MIRT1"),
      NodeData(MIRNA, MIRBASE, "miR-a", None),
      NodeData(MIRNA, "GO", "miR-b", None),
      NodeData(MIRNA, None, "miR-b", None),
      NodeData(RNA, "HGNC", None, "11") >>

PriorEdge(u, v) ==
    [u |-> u, v |-> v, relation |-> "increases", evidence |-> "prior",
     citation |-> "1", annotations |-> [Experiment |-> "", SupportType |-> ""]]

\* The graphs of at most MaxNodes nodes out of the list L, inserted in L's
\* order or in the reverse order, with an edge already between the first two.
Reverse(f) == [i \in DOMAIN f |-> f[Len(f) + 1 - i]]

RECURSIVE Picked(_, _)
Picked(L, T) ==
    IF L = <<>> THEN <<>>
    ELSE IF Head(L) \in T THEN <<Head(L)>> \o Picked(Tail(L), T)
    ELSE Picked(Tail(L), T)

CallerGraph(f) ==
    [name |-> "caller", nodes |-> f,
     edges |-> IF Len(f) >= 2 THEN <<PriorEdge(f[1], f[2])>> ELSE <<>>]

CallerGraphs(L) ==
    UNION { {CallerGraph(Picked(L, T)), CallerGraph(Reverse(Picked(L, T)))} :
            T \in {U \in SUBSET Range(L) : Cardinality(U) <= MaxNodes} }

(***************************************************************************)
(* Actions.                                                                *)
(***************************************************************************)
Init ==
    /\ store = EmptyTables
    /\ session = EmptyTables
    /\ name_mirna = EmptyDict
    /\ target_set = EmptyDict
    /\ species_set = EmptyDict
    /\ interaction_set = EmptyDict
    /\ emap = EmptyDict
    /\ df = <<>>
    /\ pc = "idle"
    /\ outcome = "none"
    /\ nextId = 1
    /\ firstId = 1
    /\ abortedIds = {}
    /\ nrows = 0
    /\ call = "none"
    /\ raised = None
    /\ graph0 = EmptyGraph("none")
    /\ graph = EmptyGraph("none")
    /\ trace = <<>>

\* populate returns or raises: its locals are gone.
DiscardLocals ==
    /\ name_mirna' = EmptyDict
    /\ target_set' = EmptyDict
    /\ species_set' = EmptyDict
    /\ interaction_set' = EmptyDict
    /\ emap' = EmptyDict
    /\ df' = <<>>

\* populate, lines 73-90: fresh caches and the cross-reference map. Callers
\* populate a store only while is_populated() reports it empty.
PopulateBegin ==
    /\ pc = "idle"
    /\ ~is_populated
    /\ pc' = "loop"
    /\ name_mirna' = EmptyDict
    /\ target_set' = EmptyDict
    /\ species_set' = EmptyDict
    /\ interaction_set' = EmptyDict
    /\ emap' = _build_entrez_map(HgncModels)
    /\ df' = <<>>
    /\ firstId' = nextId
    /\ outcome' = "running"
    /\ UNCHANGED <<store, session, nextId, abortedIds, nrows, graphVars>>

\* populate, lines 92-153: one row whose gene id is integer-coercible.
PopulateRow ==
    /\ pc = "loop"
    /\ nrows < MaxRows
    /\ \E r \in SourceRows :
        /\ IsIntCoercible(r.entrez_id)
        /\ LET c == LoopBody(Locals, r, emap)
           IN  /\ session' = c.session
               /\ name_mirna' = c.name_mirna
               /\ target_set' = c.target_set
               /\ species_set' = c.species_set
               /\ interaction_set' = c.interaction_set
               /\ nextId' = c.nextId
        /\ df' = Append(df, r)
    /\ nrows' = nrows + 1
    /\ UNCHANGED <<store, emap, pc, outcome, firstId, abortedIds,
                   call, raised, graph0, graph, trace>>

\* populate, line 96: int() raises on the row; the exception leaves populate.
PopulateRaise ==
    /\ pc = "loop"
    /\ nrows < MaxRows
    /\ \E r \in SourceRows : ~IsIntCoercible(r.entrez_id)
    /\ pc' = "idle"
    /\ outcome' = "ValueError"
    /\ abortedIds' = abortedIds \cup (firstId .. nextId - 1)
    /\ nrows' = nrows + 1
    /\ DiscardLocals
    /\ UNCHANGED <<store, session, nextId, firstId, graphVars>>

\* populate, lines 155-160: the loop is over; session.commit().
PopulateCommit ==
    /\ pc = "loop"
    /\ pc' = "idle"
    /\ IF ConstraintsHold(Merged(store, session))
       THEN /\ store' = Merged(store, session)
            /\ outcome' = "committed"
       ELSE /\ store' = store
            /\ outcome' = "IntegrityError"
    /\ session' = EmptyTables
    /\ DiscardLocals
    /\ UNCHANGED <<nextId, firstId, abortedIds, nrows, graphVars>>

dbVars ==
    <<store, session, name_mirna, target_set, species_set, interaction_set,
      emap, df, outcome, nextId, firstId, abortedIds, nrows>>

\* enrich_rnas(graph) on a caller's graph.
EnrichRnas ==
    /\ pc = "idle"
    /\ \E g \in CallerGraphs(RnaGraphNodes) :
        LET st == enrich_rnas(g)
        IN  /\ graph0' = g
            /\ graph' = st.graph
            /\ trace' = st.trace
            /\ raised' = st.raised
    /\ call' = "enrich_rnas"
    /\ pc' = "returned"
    /\ UNCHANGED dbVars

\* enrich_mirnas(graph) on a caller's graph.
EnrichMirnas ==
    /\ pc = "idle"
    /\ \E g \in CallerGraphs(MirnaGraphNodes) :
        LET st == enrich_mirnas(g)
        IN  /\ graph0' = g
            /\ graph' = st.graph
            /\ trace' = st.trace
            /\ raised' = st.raised
    /\ call' = "enrich_mirnas"
    /\ pc' = "returned"
    /\ UNCHANGED dbVars

\* to_bel(): a fresh graph, every Evidence the store lists added to it.
ToBel ==
    /\ pc = "idle"
    /\ \E listed \in Listings(store.evidences) :
        /\ graph' = to_bel(listed)
        /\ trace' = [i \in DOMAIN listed |->
                        [node |-> None, did |-> "add_to_graph", target |-> listed[i]]]
    /\ graph0' = EmptyGraph("miRTarBase")
    /\ raised' = None
    /\ call' = "to_bel"
    /\ pc' = "returned"
    /\ UNCHANGED dbVars

\* The caller is done with the graph of the last call.
Release ==
    /\ pc = "returned"
    /\ pc' = "idle"
    /\ graph0' = EmptyGraph("none")
    /\ graph' = EmptyGraph("none")
    /\ trace' = <<>>
    /\ call' = "none"
    /\ raised' = None
    /\ UNCHANGED dbVars

(***************************************************************************)
(* Properties of populate.                                                 *)
(***************************************************************************)
Objects(t) == session[t] \cup store[t]

UniqueBy(S, key(_)) == \A x, y \in S : key(x) = key(y) => x = y

ById(t, id) == CHOOSE x \in Objects(t) : x.id = id

\* The objects the running (or last) populate constructed.
Built(t) == {x \in Objects(t) : x.id >= firstId}

\* The rows of df whose gene id was coerced, and their interaction keys.
Coerced == {i \in DOMAIN df : IsIntCoercible(df[i].entrez_id)}
RowKey(r) == <<r.mirna_name, str(int(r.entrez_id))>>
InteractionKey(x) ==
    <<ById("mirnas", x.mirna).name, ById("targets", x.target).entrez_id>>
FirstRow(key) ==
    df[CHOOSE i \in Coerced :
          /\ RowKey(df[i]) = key
          /\ \A j \in Coerced : RowKey(df[j]) = key => i <= j]

\* C1: after every row populate has processed, among the objects that call
\* has built, every key
\* (mirna_name, str(int(entrez_id))) of the rows consumed has exactly one
\* Interaction, whose Evidence count is the number of rows with that key; the
\* Evidence total is the number of rows.
C1_OneInteractionPerKey ==
    pc = "loop" =>
        /\ \A i \in Coerced :
            LET key == RowKey(df[i])
                hits == {x \in Built("interactions") : InteractionKey(x) = key}
            IN  /\ Cardinality(hits) = 1
                /\ \A x \in hits :
                     Cardinality({e \in Built("evidences") : e.interaction = x.id})
                       = Cardinality({j \in Coerced : RowKey(df[j]) = key})
        /\ Cardinality(Built("evidences")) = Len(df)
        /\ \A x \in Built("interactions") :
             \E i \in Coerced : RowKey(df[i]) = InteractionKey(x)

\* Three rows, two of them under one key (given with differently written ids).
C1_Witness ==
    /\ pc = "loop"
    /\ Len(df) = 3
    /\ Cardinality(Built("interactions")) = 2
    /\ \E i, j \in Coerced :
         /\ i # j
         /\ RowKey(df[i]) = RowKey(df[j])
         /\ df[i].entrez_id # df[j].entrez_id

\* C2: after every row, no two Mirna the run staged share a name, no two
\* Target an entrez_id, no two Species a name.
C2_StagedUnique ==
    /\ UniqueBy(Built("mirnas"), MirnaKey)
    /\ UniqueBy(Built("targets"), TargetKey)
    /\ UniqueBy(Built("species"), SpeciesKey)

\* One species name used for a miRNA and for a target, and one miRNA and one
\* gene under several interaction keys.
C2_Witness ==
    /\ pc = "loop"
    /\ \E i, j \in Coerced :
         /\ i < j
         /\ df[i].mirna_species = df[j].target_species
         /\ df[i].mirna_species # df[i].target_species
    /\ \E x, y \in Built("interactions") :
         x # y /\ x.mirna = y.mirna
    /\ \E x, y \in Built("interactions") :
         x # y /\ x.target = y.target

\* C3: a Target whose entrez_id has an entry in the cross-reference map has
\* hgnc_symbol and hgnc_id set from that entry; any other Target has neither.
C3_CrossReferenceComplete ==
    LET m == _build_entrez_map(HgncModels)
    IN  \A x \in Objects("targets") :
            /\ x.entrez_id \in DOMAIN m =>
                 /\ x.hgnc_symbol = m[x.entrez_id].symbol
                 /\ x.hgnc_id = str(m[x.entrez_id].identifier)
                 /\ x.hgnc_symbol # None
            /\ x.entrez_id \notin DOMAIN m =>
                 x.hgnc_symbol = None /\ x.hgnc_id = None
            /\ (x.hgnc_symbol = None) <=> (x.hgnc_id = None)

\* A cross-referenced Target and one without an entry, side by side.
C3_Witness ==
    /\ \E x \in Objects("targets") : x.entrez_id = "1" /\ x.hgnc_id = "11"
    /\ \E x \in Objects("targets") : x.entrez_id = "3" /\ x.hgnc_id = None

\* C7: nothing that a run which raised on a non-coercible gene id had staged
\* is ever visible in the store.
C7_AbortedRunInvisible ==
    \A t \in Tables : \A x \in store[t] : x.id \notin abortedIds

\* One step of populate, as C9 describes it.
C9_Step ==
    LET r == df'[Len(df')]
        key == RowKey(r)
    IN  /\ (/\ pc = "loop" /\ pc' = "loop" /\ Len(df') = Len(df) + 1
            /\ key \in DOMAIN interaction_set)
           => /\ \A t \in Tables \ {"evidences"} : session'[t] = session[t]
              /\ UNCHANGED <<store, name_mirna, target_set, species_set,
                             interaction_set>>
              /\ \E e \in session'.evidences :
                   /\ e \notin session.evidences
                   /\ session'.evidences = session.evidences \cup {e}
                   /\ e.interaction = interaction_set[key].id
        /\ pc' = "loop" =>
             \A x \in Built("interactions")' :
                x.mirtarbase_id = FirstRow(InteractionKey(x))'.mirtarbase_id

\* C9: a row whose key already has an Interaction changes no Species, Mirna,
\* Target or Interaction and no cache and adds exactly one Evidence, attached
\* to that Interaction; an Interaction keeps the mirtarbase_id of the first
\* row with its key.
C9_FirstRowWins == [][C9_Step]_vars

\* A second row under the key of the first, with another mirtarbase_id, gene
\* symbol and species.
C9_Witness ==
    /\ pc = "loop"
    /\ Len(df) = 2
    /\ RowKey(df[1]) = RowKey(df[2])
    /\ df[1].mirtarbase_id # df[2].mirtarbase_id
    /\ df[1].gene_name # df[2].gene_name
    /\ df[1].target_species # df[2].target_species
    /\ Cardinality(session.evidences) = 2
    /\ Cardinality(session.interactions) = 1


(***************************************************************************)
(* Properties of the graph calls.                                          *)
(***************************************************************************)
IsPrefix(a, b) == Len(a) <= Len(b) /\ \A i \in DOMAIN a : a[i] = b[i]

\* The edges the call added that end at node.
Added == (Len(graph0.edges) + 1) .. Len(graph.edges)
AddedTo(node) == {i \in Added : graph.edges[i].v = node}

EvidencesOfTarget(t) ==
    {e \in store.evidences :
        \E x \in store.interactions : x.id = e.interaction /\ x.target = t.id}
EvidencesOfMirna(name) ==
    {e \in store.evidences :
        \E x \in store.interactions, m \in store.mirnas :
            x.id = e.interaction /\ m.id = x.mirna /\ m.name = name}
MirnaNodeOf(e) ==
    LET x == CHOOSE y \in store.interactions : y.id = e.interaction
        m == CHOOSE y \in store.mirnas : y.id = x.mirna
    IN  [function |-> "miRNA", namespace |-> "MIRBASE", name |-> m.name,
         identifier |-> None]

RECURSIVE SumEvidences(_)
SumEvidences(its) ==
    IF its = {} THEN 0
    ELSE LET x == CHOOSE y \in its : TRUE
         IN  Cardinality({e \in store.evidences : e.interaction = x.id})
               + SumEvidences(its \ {x})

\* C4: for every RNA node enrich_rnas resolved to a Target with Interactions
\* of k_1..k_N Evidence, the call added exactly k_1+...+k_N edges ending at
\* the node, one per Evidence: from the node of that Evidence's Mirna,
\* directly-decreases, citing the stringified reference.
C4_EnrichmentComplete ==
    call = "enrich_rnas" =>
        \A k \in DOMAIN trace :
            trace[k].did = "resolved" =>
                LET node == trace[k].node
                    evs == EvidencesOfTarget(trace[k].target)
                    new == AddedTo(node)
                IN  /\ Cardinality(new)
                         = SumEvidences({x \in store.interactions :
                                            x.target = trace[k].target.id})
                    /\ \E f \in [new -> evs] :
                         /\ \A i, j \in new : f[i] = f[j] => i = j
                         /\ \A i \in new :
                              /\ graph.edges[i].u = MirnaNodeOf(f[i])
                              /\ graph.edges[i].relation = "directlyDecreases"
                              /\ graph.edges[i].citation = ToString(f[i].reference)

\* A node resolved to a Target with two Interactions and three Evidence of
\* two references, in a graph that already held an edge ending at it.
C4_Witness ==
    /\ call = "enrich_rnas"
    /\ \E k \in DOMAIN trace :
         /\ trace[k].did = "resolved"
         /\ Cardinality({x \in store.interactions : x.target = trace[k].target.id}) = 2
         /\ Cardinality(EvidencesOfTarget(trace[k].target)) = 3
         /\ Cardinality({e.reference : e \in EvidencesOfTarget(trace[k].target)}) = 2
         /\ \E i \in DOMAIN graph0.edges : graph0.edges[i].v = trace[k].node

\* C5: enrich_mirnas raises when a mirtarbase-authority miRNA node has no
\* name; when every such node has a name it does not raise and adds one edge
\* per Evidence of the stored Mirna so named.
C5_NamedMirtarbaseNodeEnriched ==
    call = "enrich_mirnas" =>
        LET mtb == {n \in Range(graph0.nodes) :
                       /\ n.function = "miRNA"
                       /\ n.namespace \in {"miRTarBase", "mirtarbase"}}
        IN  /\ (\E n \in mtb : n.name = None) => raised = "IndexError"
            /\ (\A n \in mtb : n.name # None) =>
                 /\ raised = None
                 /\ Cardinality(Added)
                      = Cardinality(UNION {EvidencesOfMirna(n.name) : n \in mtb})

\* The resolver's contract on HGNC-authority nodes, given what counts as a
\* present identifier or symbol.
HgncContract(Present(_)) ==
    call = "enrich_rnas" =>
        \A k \in DOMAIN trace :
            LET n == trace[k].node
                byId == {x \in store.targets : x.hgnc_id = n.identifier}
                bySymbol == {x \in store.targets : x.hgnc_symbol = n.name}
                Returns(S) ==
                    IF S = {} THEN trace[k].did = "not found"
                    ELSE trace[k].did = "resolved" /\ S = {trace[k].target}
            IN  (n.function = "RNA" /\ n.namespace \in {"HGNC", "Hgnc", "hgnc"}) =>
                    IF Present(n.identifier) THEN Returns(byId)
                    ELSE IF Present(n.name) THEN Returns(bySymbol)
                    ELSE trace[k].did = "IndexError" /\ raised = "IndexError"

IsGiven(x) == x # None
IsGivenNonEmpty(x) == x # None /\ x # ""

\* C6 as stated: on an HGNC-authority node an identifier that is present
\* decides the lookup, a symbol does when no identifier is present, and
\* IndexError is raised when neither is present.
C6_HgncResolverAsStated == HgncContract(IsGiven)

\* C6: on an HGNC-authority node (any letter case) the resolver returns the
\* Target whose hgnc_id equals the identifier when a non-empty identifier is
\* present, without consulting the symbol; otherwise the Target whose
\* hgnc_symbol equals the symbol when a non-empty symbol is present; nothing
\* when that lookup matches no Target; and raises IndexError when neither a
\* non-empty identifier nor a non-empty symbol is present.
C6_HgncResolver == HgncContract(IsGivenNonEmpty)

\* A lower-case hgnc node whose identifier matches nothing while its symbol
\* names a stored Target, and an HGNC node resolved by identifier.
C6_Witness ==
    /\ call = "enrich_rnas"
    /\ \E k \in DOMAIN trace :
         /\ trace[k].node.namespace = "hgnc"
         /\ trace[k].node.identifier = "99"
         /\ trace[k].did = "not found"
         /\ \E x \in store.targets : x.hgnc_symbol = trace[k].node.name
    /\ \E k \in DOMAIN trace :
         /\ trace[k].node.namespace = "HGNC"
         /\ trace[k].node.identifier = "11"
         /\ trace[k].did = "resolved"

EdgeOf(e) ==
    LET x == CHOOSE y \in store.interactions : y.id = e.interaction
        t == CHOOSE y \in store.targets : y.id = x.target
    IN  [u |-> MirnaNodeOf(e), v |-> target_as_bel(t),
         relation |-> "directlyDecreases", evidence |-> e.support,
         citation |-> ToString(e.reference),
         annotations |-> [Experiment |-> e.experiment, SupportType |-> e.support]]

\* C8: to_bel returns a fresh graph into which every stored Evidence was
\* emitted exactly once, whatever their grouping, and whose edges are the
\* same in whatever order the store lists the Evidence.
C8_ToBelEmitsEachOnce ==
    call = "to_bel" =>
        /\ graph.name = "miRTarBase"
        /\ Len(graph.edges) = Cardinality(store.evidences)
        /\ Len(trace) = Len(graph.edges)
        /\ \A e \in store.evidences :
             Cardinality({k \in DOMAIN trace : trace[k].target = e}) = 1
        /\ \A k \in DOMAIN trace : graph.edges[k] = EdgeOf(trace[k].target)
        /\ \A e \in store.evidences :
             Cardinality({k \in DOMAIN graph.edges : graph.edges[k] = EdgeOf(e)})
               = Cardinality({d \in store.evidences : EdgeOf(d) = EdgeOf(e)})
        /\ Range(graph.nodes)
             = UNION {{EdgeOf(e).u, EdgeOf(e).v} : e \in store.evidences}

\* Three Evidence of two Interactions, listed out of creation order.
C8_Witness ==
    /\ call = "to_bel"
    /\ Len(trace) = 3
    /\ Cardinality(store.interactions) = 2
    /\ trace[1].target.id > trace[2].target.id

Recognized(ns) ==
    ns \in {"HGNC", "Hgnc", "hgnc", "EGID", "egid", "Entrez", "entrez"}

\* C10: in enrich_rnas an RNA node of an unrecognized authority, or of a
\* recognized one that matches no Target, gets no edge and raises nothing, and
\* the nodes after it are still processed; the call keeps every node and edge
\* the graph had, unchanged, and only adds to them.
C10_SkipsAreSilentAndAdditive ==
    call = "enrich_rnas" =>
        /\ graph.name = graph0.name
        /\ IsPrefix(graph0.nodes, graph.nodes)
        /\ IsPrefix(graph0.edges, graph.edges)
        /\ IsPrefix([k \in DOMAIN trace |-> trace[k].node], graph0.nodes)
        /\ raised = None => Len(trace) = Len(graph0.nodes)
        /\ raised # None =>
             LET n == trace[Len(trace)].node
             IN  /\ n.function = "RNA" /\ Recognized(n.namespace)
                 /\ n.identifier \in {None, ""} /\ n.name \in {None, ""}
        /\ \A k \in DOMAIN trace :
             LET n == trace[k].node
             IN  /\ (n.function = "RNA" /\ n.namespace # None
                        /\ ~Recognized(n.namespace))
                      => trace[k].did = "unmapped"
                 /\ trace[k].did \in {"unmapped", "not found"}
                      => AddedTo(n) = {}

\* An unrecognized-authority node and then a resolved one that got its edges,
\* in a graph that came with an edge.
C10_Witness ==
    /\ call = "enrich_rnas"
    /\ Len(trace) = 2
    /\ trace[1].did = "unmapped"
    /\ trace[2].did = "resolved"
    /\ AddedTo(trace[2].node) # {}
    /\ Len(graph0.edges) = 1

Next ==
    \/ PopulateBegin
    \/ PopulateRow
    \/ PopulateRaise
    \/ PopulateCommit
    \/ EnrichRnas
    \/ EnrichMirnas
    \/ ToBel
    \/ Release

Spec == Init /\ [][Next]_vars

====
